---- MODULE Spec2Model ----
(***************************************************************************)
(* SnapShelf backend (SnapShelf-backend/server.js): the scan path          *)
(* POST /analyze-fridge with its name canonicalisation and merge policy,   *)
(* and the operations that read the inventory.                             *)
(*                                                                         *)
(* A string is modelled as a sequence of one-character strings, so that    *)
(* trim/lowercase/replace/slice are computed character by character.       *)
(***************************************************************************)
EXTENDS Integers, Sequences, FiniteSets, TLC

VARIABLES
  items,          \* itemsCollection, in natural order
  pc,             \* where each /analyze-fridge request stands
  normalizedItems,\* the request's normalizedItems
  idx,            \* position of the for...of loop in normalizedItems
  existingItem,   \* index of the document findOne returned, 0 for null
  updatePayload,  \* the request's updatePayload for the current item
  status,         \* the response of the request: "none", "ok" or "error"
  clock,          \* number of requests so far: names the image and the time
  used,           \* recognised items and other requests accepted so far
  nextId,         \* the _id the store gives the next inserted document
  startItems,     \* history: the collection when the request started
  reads,          \* history: findOne calls of the request
  writes,         \* history: updateOne calls of the request
  response,       \* history: what the recognition service answered the request
  calls,          \* history: calls of the recognition service by the request
  groceryList,    \* groceryListCollection, in natural order
  recipes,        \* recipesCollection, in natural order
  reply,          \* the response of the last grocery or recipe request
  cIn,            \* canonicaliser specification: the name given
  cOut,           \* canonicaliser specification: canonicalizeName(cIn)
  cDone           \* canonicaliser specification: whether cOut is computed

(***************************************************************************)
(* Bounds of the model.                                                    *)
(***************************************************************************)
\* number of recognised items accepted over one behaviour (an empty response
\* counts as one)
MaxObs == 4
\* longest item list a recognition response carries
MaxBatch == 2
\* recognised items accepted over one behaviour with concurrent requests
MaxConcObs == 3
\* requests (a recognised item counting as one) accepted over one behaviour
\* when grocery and recipe requests are served as well
MaxOps == 3
\* longest list a grocery or recipe request carries
MaxList == 2
\* longest name handed to canonicalizeName in the canonicaliser specification
MaxNameLen == 4
\* longest same-key observation sequence tried against a reachable inventory
MaxSeqLen == 2
\* recognised items accepted over one behaviour when the recognition
\* response is looked into (a failed call counts as one)
MaxVisionObs == 3

\* number of recognised items accepted over one behaviour of the scans with
\* detailed items
MaxNormObs == 2
\* number of recognised items accepted over one behaviour when calls of the
\* store may fail
MaxFailObs == 3

(***************************************************************************)
(* Characters.                                                             *)
(***************************************************************************)
LowerLetters ==
  {"a", "c", "e", "i", "l", "n", "o", "p", "r", "s", "t", "u", "y"}

UpperLetters ==
  {"A", "C", "E", "I", "L", "N", "O", "P", "R", "S", "T", "U", "Y"}

DigitChars == {"7"}

\* the characters matched by \s among those used here
SpaceChars == {" "}

PunctChars == {"-"}

\* String.prototype.toLowerCase on one character
toLowerCase(c) ==
  CASE c = "A" -> "a" [] c = "E" -> "e" [] c = "I" -> "i" [] c = "L" -> "l"
    [] c = "P" -> "p" [] c = "S" -> "s" [] c = "Y" -> "y" [] c = "C" -> "c"
    [] c = "N" -> "n" [] c = "O" -> "o" [] c = "R" -> "r" [] c = "T" -> "t"
    [] c = "U" -> "u" [] OTHER -> c

\* String.prototype.toUpperCase on one character
toUpperCase(c) ==
  CASE c = "a" -> "A" [] c = "e" -> "E" [] c = "i" -> "I" [] c = "l" -> "L"
    [] c = "p" -> "P" [] c = "s" -> "S" [] c = "y" -> "Y" [] c = "c" -> "C"
    [] c = "n" -> "N" [] c = "o" -> "O" [] c = "r" -> "R" [] c = "t" -> "T"
    [] c = "u" -> "U" [] OTHER -> c

\* str.toLowerCase()
LowerStr(s) == [i \in 1..Len(s) |-> toLowerCase(s[i])]

RECURSIVE TrimLeft(_)
TrimLeft(s) ==
  IF s # << >> /\ Head(s) \in SpaceChars THEN TrimLeft(Tail(s)) ELSE s

RECURSIVE TrimRight(_)
TrimRight(s) ==
  IF s # << >> /\ s[Len(s)] \in SpaceChars
  THEN TrimRight(SubSeq(s, 1, Len(s) - 1))
  ELSE s

\* str.trim()
Trim(s) == TrimRight(TrimLeft(s))

\* str.replace(/\s+/g, ' '): every maximal run of whitespace becomes one space
RECURSIVE CollapseSpaces(_)
CollapseSpaces(s) ==
  IF s = << >> THEN << >>
  ELSE IF Head(s) \in SpaceChars
       THEN <<" ">> \o CollapseSpaces(TrimLeft(s))
       ELSE <<Head(s)>> \o CollapseSpaces(Tail(s))

\* the class [a-z0-9\s]
IsAlnumOrSpace(c) == c \in LowerLetters \cup DigitChars \cup SpaceChars

\* str.replace(/[^a-z0-9\s]/g, '')
StripNonAlnum(s) == SelectSeq(s, IsAlnumOrSpace)

\* str.endsWith(suffix)
EndsWith(s, suffix) ==
  /\ Len(s) >= Len(suffix)
  /\ SubSeq(s, Len(s) - Len(suffix) + 1, Len(s)) = suffix

\* str.slice(0, -n)
DropLast(s, n) == SubSeq(s, 1, Len(s) - n)

canonicalizeName(name) ==
  LET cleaned == CollapseSpaces(LowerStr(Trim(name)))
      alnum == StripNonAlnum(cleaned)
  IN  IF alnum = << >> THEN << >>
      ELSE IF EndsWith(alnum, <<"i", "e", "s">>) /\ Len(alnum) > 3
           THEN DropLast(alnum, 3) \o <<"y">>
      ELSE IF EndsWith(alnum, <<"e", "s">>) /\ Len(alnum) > 2
           THEN DropLast(alnum, 2)
      ELSE IF EndsWith(alnum, <<"s">>) /\ Len(alnum) > 1
           THEN DropLast(alnum, 1)
      ELSE alnum

\* str.toLowerCase().split(' ').filter(Boolean).map(capitalise).join(' '),
\* scanned left to right: atStart is TRUE when the next character opens a word
\* and emitted is TRUE once a word has been output
RECURSIVE CapScan(_, _, _)
CapScan(s, atStart, emitted) ==
  IF s = << >> THEN << >>
  ELSE IF Head(s) = " " THEN CapScan(Tail(s), TRUE, emitted)
  ELSE IF atStart
       THEN (IF emitted THEN <<" ">> ELSE << >>)
            \o <<toUpperCase(Head(s))>> \o CapScan(Tail(s), FALSE, TRUE)
       ELSE <<Head(s)>> \o CapScan(Tail(s), FALSE, TRUE)

capitalizeWords(str) == CapScan(LowerStr(str), TRUE, FALSE)

toTitleCase(str) == CapScan(LowerStr(str), TRUE, FALSE)

\* the variants as a set (the array is only used as the operand of $in)
generateNameVariants(baseName) ==
  IF baseName = << >> THEN {}
  ELSE {baseName, baseName \o <<"s">>, baseName \o <<"e", "s">>}
       \cup (IF EndsWith(baseName, <<"y">>)
             THEN {DropLast(baseName, 1) \o <<"i", "e", "s">>}
             ELSE {})

(***************************************************************************)
(* Numbers as the recognition service may send them: fin is FALSE for a    *)
(* value Number() does not turn into a finite number, and x10 is ten times *)
(* the value, so that tenths can be rounded.                               *)
(***************************************************************************)
Num(n) == [fin |-> TRUE, x10 |-> 10 * n]

Tenths(t) == [fin |-> TRUE, x10 |-> t]

NotANumber == [fin |-> FALSE, x10 |-> 0]

\* Math.round of x10/10: the nearest integer, a half going up
MathRound(x10) == (x10 + 5) \div 10

MathMax(a, b) == IF a >= b THEN a ELSE b

\* a safeInteger that rounds and does not clamp
safeIntegerNoClamp(value) ==
  IF ~value.fin THEN 0 ELSE MathRound(value.x10)

safeInteger(value) ==
  IF ~value.fin THEN 0 ELSE MathMax(0, MathRound(value.x10))

SUPPORTED_CATEGORIES ==
  {"produce", "dairy", "meat", "drinks", "leftovers", "condiments", "frozen",
   "bakery", "snacks", "beverages", "seafood", "poultry", "grains", "spices",
   "chips"}

\* the category of a request body or of an item: undefined, a value that is
\* no string, or a string
CatUndefined == "<undefined>"

CatNotString == "<not a string>"

\* item.category.toLowerCase() for the category strings used here
CategoryLower(c) ==
  CASE c = "Produce" -> "produce"
    [] c = "DAIRY" -> "dairy"
    [] c = "Candy" -> "candy"
    [] c = "SNACKS" -> "snacks"
    [] OTHER -> c

\* a rawCategory that is the category as it was sent
RawCategoryAsSent(c) ==
  IF c \in {CatUndefined, CatNotString} THEN "" ELSE c

\* typeof item.category === 'string' ? item.category.toLowerCase() : ''
RawCategory(c) ==
  IF c \in {CatUndefined, CatNotString} THEN "" ELSE CategoryLower(c)

\* an absent bbox (null, or an array without elements)
NoBbox == << >>

\* a bbox that is no array: a string, a number, an object
NotArrayBbox == <<"<not an array>">>

(***************************************************************************)
(* The elements of a bbox array are JSON values: type is what typeof says  *)
(* of the element ("null" for null), and fin and x10 are what the element  *)
(* is turned into when it is compared with a number, fin FALSE for NaN and *)
(* x10 ten times the number.                                               *)
(***************************************************************************)
BoxNum(t) == [type |-> "number", fin |-> TRUE, x10 |-> t]

\* a string that reads as a number, such as "0.5"
BoxStr(t) == [type |-> "string", fin |-> TRUE, x10 |-> t]

\* a string that does not read as a number
BoxText == [type |-> "string", fin |-> FALSE, x10 |-> 0]

\* null compares as 0
BoxNull == [type |-> "null", fin |-> TRUE, x10 |-> 0]

\* true compares as 1
BoxTrue == [type |-> "boolean", fin |-> TRUE, x10 |-> 10]

Box(x, y, w, h) == <<BoxNum(x), BoxNum(y), BoxNum(w), BoxNum(h)>>

\* v >= 0 && v <= 1, 1 being 10 tenths; every comparison with NaN is false
InUnit(v) == v.fin /\ v.x10 >= 0 /\ v.x10 <= 10

\* v > 0 && v <= 1
InUnitPositive(v) == v.fin /\ v.x10 > 0 /\ v.x10 <= 10

\* the bbox test of normalizeItems
ValidBbox(b) ==
  /\ b # NoBbox /\ b # NotArrayBbox /\ Len(b) = 4
  /\ InUnit(b[1]) /\ InUnit(b[2])
  /\ InUnitPositive(b[3]) /\ InUnitPositive(b[4])

\* a value that is not a string, where a name or a title is expected
NoString == <<"<not a string>">>

IsString(x) == x # NoString

\* rawName = typeof item.name === 'string' ? item.name.trim() : ''
RawName(item) == IF IsString(item.name) THEN Trim(item.name) ELSE << >>

\* the map callback of normalizeItems for an item that is kept
NormalizeOne(item, now) ==
  LET rawName == RawName(item)
      rawCategory == RawCategory(item.category)
  IN  [name |-> capitalizeWords(rawName),
       canonicalName |-> canonicalizeName(rawName),
       qty |-> safeInteger(item.qty),
       expiresInDays |-> safeInteger(item.expiresInDays),
       category |-> IF rawCategory \in SUPPORTED_CATEGORIES
                    THEN rawCategory ELSE "snacks",
       bbox |-> IF ValidBbox(item.bbox) THEN item.bbox ELSE NoBbox,
       detectedAt |-> now]

\* the items the map callback turns into null
Dropped(item) ==
  RawName(item) = << >> \/ canonicalizeName(RawName(item)) = << >>

Kept(item) == ~Dropped(item)

normalizeItems(rawItems, now) ==
  LET kept == SelectSeq(rawItems, Kept)
  IN  [i \in 1..Len(kept) |-> NormalizeOne(kept[i], now)]

(***************************************************************************)
(* The recognition service's items used as inputs.                         *)
(***************************************************************************)
Name7 == <<"7">>

Name7e == <<"7", "e">>

Name7es == <<"7", "e", "s">>

NameApples == <<"a", "p", "p", "l", "e", "s">>

NameApple == <<"A", "p", "p", "l", "e">>

NameDash == <<" ", "-">>

RawItems ==
  { [name |-> Name7, qty |-> Num(1), expiresInDays |-> Num(3),
     category |-> "dairy", bbox |-> Box(1, 1, 5, 5)],
    [name |-> Name7e, qty |-> Num(-1), expiresInDays |-> NotANumber,
     category |-> "candy", bbox |-> NoBbox],
    [name |-> Name7es, qty |-> Num(2), expiresInDays |-> Tenths(45),
     category |-> "Produce", bbox |-> Box(5, 5, 12, 3)],
    [name |-> NameApple, qty |-> Num(3), expiresInDays |-> Num(5),
     category |-> "produce", bbox |-> NoBbox],
    [name |-> NameApples, qty |-> Num(2), expiresInDays |-> Num(6),
     category |-> "produce", bbox |-> NoBbox],
    [name |-> NameDash, qty |-> Num(1), expiresInDays |-> Num(1),
     category |-> "meat", bbox |-> NoBbox] }

\* the item lists a recognition response may carry
RawBatches == UNION {[1..n -> RawItems] : n \in 0..MaxBatch}

(***************************************************************************)
(* The items collection: a sequence of documents in natural order, each    *)
(* [_id, doc], doc holding the fields other than _id.                      *)
(***************************************************************************)
Requests == {"r1", "r2"}

\* the filter {$or: [{canonicalName}, {name: {$in: nameVariants}}]} on one document
Matches(d, canonicalName, nameVariants) ==
  d.doc.canonicalName = canonicalName \/ d.doc.name \in nameVariants

\* the indices of the documents the filter selects
MatchSet(coll, canonicalName, nameVariants) ==
  {i \in 1..Len(coll) : Matches(coll[i], canonicalName, nameVariants)}

\* findOne / updateOne select the first matching document in natural order;
\* 0 stands for no document (null)
FirstMatch(coll, canonicalName, nameVariants) ==
  LET m == MatchSet(coll, canonicalName, nameVariants)
  IN  IF m = {} THEN 0 ELSE CHOOSE i \in m : \A j \in m : i <= j

\* newQty computed by replacing instead of adding
newQtyReplace(existingQty, qty) == MathMax(0, qty)

\* Math.max(0, existingQty + itemWithImage.qty)
newQty(existingQty, qty) == MathMax(0, existingQty + qty)


scanVars ==
  <<items, pc, normalizedItems, idx, existingItem, updatePayload, status,
    clock, used, nextId, startItems, reads, writes>>

visionVars == <<response, calls>>

canonVars == <<cIn, cOut, cDone>>

opsVars == <<groceryList, recipes, reply>>

\* what a scan request leaves alone
otherVars == <<canonVars, opsVars>>

vars == <<scanVars, visionVars, canonVars, opsVars>>

\* no request has called the recognition service
NoResponse == [kind |-> "none"]

InitVision ==
  /\ response = [r \in Requests |-> NoResponse]
  /\ calls = [r \in Requests |-> 0]

InitScan ==
  /\ items = << >>
  /\ pc = [r \in Requests |-> "idle"]
  /\ normalizedItems = [r \in Requests |-> << >>]
  /\ idx = [r \in Requests |-> 0]
  /\ existingItem = [r \in Requests |-> 0]
  /\ updatePayload = [r \in Requests |-> << >>]
  /\ status = [r \in Requests |-> "none"]
  /\ clock = 0
  /\ used = 0
  /\ nextId = 1
  /\ startItems = [r \in Requests |-> << >>]
  /\ reads = [r \in Requests |-> 0]
  /\ writes = [r \in Requests |-> 0]
  /\ InitVision

InitCanonIdle == cIn = << >> /\ cOut = << >> /\ cDone = FALSE

NoReply == [op |-> "none"]

InitOps == groceryList = << >> /\ recipes = << >> /\ reply = NoReply

Init == InitScan /\ InitCanonIdle /\ InitOps

\* a loop that stops one item early
LoopPcStopsEarly(i, n) == IF i < n THEN "read" ELSE "respond"

\* the pc of a request whose loop stands at position i of n items
LoopPc(i, n) == IF i <= n THEN "read" ELSE "respond"

Max1(n) == IF n = 0 THEN 1 ELSE n

(***************************************************************************)
(* POST /analyze-fridge, up to the merge loop: callGeminiVision returns    *)
(* rawItems, normalizeItems turns them into normalizedItems.               *)
(***************************************************************************)
\* the request goes on with the rawItems callGeminiVision returned
Accepted(r, limit, rawItems) ==
  /\ pc[r] \in {"idle", "done", "failed"}
  /\ used + Max1(Len(rawItems)) <= limit
  /\ used' = used + Max1(Len(rawItems))
  /\ LET batch == normalizeItems(rawItems, clock + 1)
     IN  /\ normalizedItems' = [normalizedItems EXCEPT ![r] = batch]
         /\ pc' = [pc EXCEPT ![r] = LoopPc(1, Len(batch))]
  /\ clock' = clock + 1
  /\ idx' = [idx EXCEPT ![r] = 1]
  /\ existingItem' = [existingItem EXCEPT ![r] = 0]
  /\ updatePayload' = [updatePayload EXCEPT ![r] = << >>]
  /\ status' = [status EXCEPT ![r] = "none"]
  /\ startItems' = [startItems EXCEPT ![r] = items]
  /\ reads' = [reads EXCEPT ![r] = 0]
  /\ writes' = [writes EXCEPT ![r] = 0]
  /\ UNCHANGED <<items, nextId>>

\* the recognition response is not looked into: any list of items
StartScan(r, limit) ==
  /\ \E rawItems \in RawBatches : Accepted(r, limit, rawItems)
  /\ UNCHANGED <<visionVars, otherVars>>

\* callGeminiVision throws: the catch block answers 500
Rejected(r, limit) ==
  /\ pc[r] \in {"idle", "done", "failed"}
  /\ used + 1 <= limit
  /\ used' = used + 1
  /\ clock' = clock + 1
  /\ pc' = [pc EXCEPT ![r] = "failed"]
  /\ status' = [status EXCEPT ![r] = "error"]
  /\ normalizedItems' = [normalizedItems EXCEPT ![r] = << >>]
  /\ idx' = [idx EXCEPT ![r] = 0]
  /\ existingItem' = [existingItem EXCEPT ![r] = 0]
  /\ updatePayload' = [updatePayload EXCEPT ![r] = << >>]
  /\ startItems' = [startItems EXCEPT ![r] = items]
  /\ reads' = [reads EXCEPT ![r] = 0]
  /\ writes' = [writes EXCEPT ![r] = 0]
  /\ UNCHANGED <<items, nextId>>

ScanFails(r, limit) == Rejected(r, limit) /\ UNCHANGED <<visionVars, otherVars>>

\* itemImageData: the crop when there is a bbox and cropItemImage returned a
\* buffer, else the full image
ItemImageData(item, cropped, img) ==
  IF item.bbox # NoBbox /\ cropped
  THEN [kind |-> "crop", img |-> img]
  ELSE [kind |-> "full", img |-> img]

\* updatePayload = {...itemWithImage, qty: newQty, canonicalName}
MakePayload(item, existingQty, cropped) ==
  [name |-> item.name,
   canonicalName |-> item.canonicalName,
   qty |-> newQty(existingQty, item.qty),
   expiresInDays |-> item.expiresInDays,
   category |-> item.category,
   bbox |-> item.bbox,
   detectedAt |-> item.detectedAt,
   imageData |-> ItemImageData(item, cropped, item.detectedAt),
   fullImageData |-> item.detectedAt]

\* existingQty = Number.isFinite(existingItem?.qty) ? existingItem.qty : 0
ExistingQty(coll, i) == IF i = 0 THEN 0 ELSE coll[i].doc.qty

(***************************************************************************)
(* One turn of the loop up to and including the await of findOne.          *)
(***************************************************************************)
FindOne(r) ==
  /\ pc[r] = "read"
  /\ LET item == normalizedItems[r][idx[r]]
         found == FirstMatch(items, item.canonicalName,
                             generateNameVariants(item.canonicalName))
     IN  /\ existingItem' = [existingItem EXCEPT ![r] = found]
         /\ \E cropped \in BOOLEAN :
              updatePayload' =
                [updatePayload EXCEPT
                   ![r] = MakePayload(item, ExistingQty(items, found), cropped)]
  /\ pc' = [pc EXCEPT ![r] = "write"]
  /\ reads' = [reads EXCEPT ![r] = @ + 1]
  /\ UNCHANGED <<items, normalizedItems, idx, status, clock, used, nextId,
                 startItems, writes, visionVars, otherVars>>

\* $set: the fields of the payload replace the document's, its _id stays
SetFields(doc, payload) == [_id |-> doc._id, doc |-> payload]

\* an update that touches every matching document (updateMany)
UpsertMany(coll, payload, newId) ==
  LET m == MatchSet(coll, payload.canonicalName,
                    generateNameVariants(payload.canonicalName))
  IN  IF m = {}
      THEN Append(coll, [_id |-> newId, doc |-> payload])
      ELSE [i \in 1..Len(coll) |->
              IF i \in m THEN SetFields(coll[i], payload) ELSE coll[i]]

\* an update that sets the quantity alone
UpsertQtyOnly(coll, payload, newId) ==
  LET target == FirstMatch(coll, payload.canonicalName,
                           generateNameVariants(payload.canonicalName))
  IN  IF target = 0
      THEN Append(coll, [_id |-> newId, doc |-> payload])
      ELSE [coll EXCEPT ![target].doc.qty = payload.qty]

\* the legacy scan path: clear the collection, then insert
ClearAndInsert(coll, payload, newId) == <<[_id |-> newId, doc |-> payload]>>

\* updateOne(filter, {$set: payload}, {upsert: true}) on the collection
UpsertOne(coll, payload, newId) ==
  LET target == FirstMatch(coll, payload.canonicalName,
                           generateNameVariants(payload.canonicalName))
  IN  IF target = 0
      THEN Append(coll, [_id |-> newId, doc |-> payload])
      ELSE [coll EXCEPT ![target] = SetFields(@, payload)]

(***************************************************************************)
(* The await of updateOne and the end of the loop turn.                    *)
(***************************************************************************)
UpdateOne(r) ==
  /\ pc[r] = "write"
  /\ items' = UpsertOne(items, updatePayload[r], nextId)
  /\ nextId' = IF Len(items') > Len(items) THEN nextId + 1 ELSE nextId
  /\ idx' = [idx EXCEPT ![r] = @ + 1]
  /\ pc' = [pc EXCEPT ![r] = LoopPc(idx[r] + 1, Len(normalizedItems[r]))]
  /\ writes' = [writes EXCEPT ![r] = @ + 1]
  /\ UNCHANGED <<normalizedItems, existingItem, updatePayload, status, clock,
                 used, startItems, reads, visionVars, otherVars>>

\* the final find({}) and res.json({status: 'ok', ...})
Respond(r) ==
  /\ pc[r] = "respond"
  /\ pc' = [pc EXCEPT ![r] = "done"]
  /\ status' = [status EXCEPT ![r] = "ok"]
  /\ UNCHANGED <<items, normalizedItems, idx, existingItem, updatePayload,
                 clock, used, nextId, startItems, reads, writes, visionVars,
                 otherVars>>

\* requests are served concurrently: their awaits interleave
Next ==
  \E r \in Requests :
    \/ StartScan(r, MaxConcObs)
    \/ ScanFails(r, MaxConcObs)
    \/ FindOne(r)
    \/ UpdateOne(r)
    \/ Respond(r)

Spec == Init /\ [][Next]_vars

\* the request served when requests come one at a time
SeqRequest == "r1"

\* one request at a time: the next is accepted when the last has ended
NextSeq ==
  \/ StartScan(SeqRequest, MaxObs)
  \/ ScanFails(SeqRequest, MaxObs)
  \/ FindOne(SeqRequest)
  \/ UpdateOne(SeqRequest)
  \/ Respond(SeqRequest)

SpecSeq == Init /\ [][NextSeq]_vars

(***************************************************************************)
(* A call of the store that is rejected: the findOne or the updateOne of a *)
(* loop turn, or the final find.  The rejected call has changed nothing;   *)
(* the catch block answers 500.                                            *)
(***************************************************************************)
StoreFails(r) ==
  /\ pc[r] \in {"read", "write", "respond"}
  /\ pc' = [pc EXCEPT ![r] = "failed"]
  /\ status' = [status EXCEPT ![r] = "error"]
  /\ UNCHANGED <<items, normalizedItems, idx, existingItem, updatePayload,
                 clock, used, nextId, startItems, reads, writes, visionVars,
                 otherVars>>

NextStoreFail ==
  \/ StartScan(SeqRequest, MaxFailObs)
  \/ ScanFails(SeqRequest, MaxFailObs)
  \/ FindOne(SeqRequest)
  \/ UpdateOne(SeqRequest)
  \/ Respond(SeqRequest)
  \/ StoreFails(SeqRequest)

SpecStoreFail == Init /\ [][NextStoreFail]_vars

(***************************************************************************)
(* callGeminiVision.  The text of a candidate is a sequence of tokens:     *)
(* "fence" three backquotes, "json" the language tag, "nl" a line break,   *)
(* "{" and "}" the braces of the outer object, "items" the member          *)
(* "items": [...] holding the response's item list, "key" a member that is *)
(* not items, "array" the item list as a top-level array, "text" prose     *)
(* without braces.  The objects of the item list have braces of their own. *)
(***************************************************************************)
IsSpaceToken(t) == t = "nl"

RECURSIVE TrimTokensLeft(_)
TrimTokensLeft(c) ==
  IF c # << >> /\ IsSpaceToken(Head(c)) THEN TrimTokensLeft(Tail(c)) ELSE c

RECURSIVE TrimTokensRight(_)
TrimTokensRight(c) ==
  IF c # << >> /\ IsSpaceToken(c[Len(c)])
  THEN TrimTokensRight(SubSeq(c, 1, Len(c) - 1)) ELSE c

TrimTokens(c) == TrimTokensLeft(TrimTokensRight(c))

\* jsonString.replace(/^<fence>(?:json)?\s*\n?/i, '')
StripOpeningFence(c) ==
  IF c # << >> /\ Head(c) = "fence"
  THEN LET afterFence == Tail(c)
           afterTag == IF afterFence # << >> /\ Head(afterFence) = "json"
                       THEN Tail(afterFence) ELSE afterFence
       IN  TrimTokensLeft(afterTag)
  ELSE c

\* jsonString.replace(/\n?<fence>\s*$/i, '')
StripClosingFence(c) ==
  LET body == TrimTokensRight(c)
  IN  IF body # << >> /\ body[Len(body)] = "fence"
      THEN LET rest == SubSeq(body, 1, Len(body) - 1)
           IN  IF rest # << >> /\ rest[Len(rest)] = "nl"
               THEN SubSeq(rest, 1, Len(rest) - 1) ELSE rest
      ELSE c

\* the token holds a "{", respectively a "}"
HasOpen(t, list) == t = "{" \/ (t \in {"items", "array"} /\ list # << >>)

HasClose(t, list) == t = "}" \/ (t \in {"items", "array"} /\ list # << >>)

WithoutSpace(c) == SelectSeq(c, LAMBDA t : ~IsSpaceToken(t))

ParseError(kind) == [ok |-> FALSE, error |-> kind]

\* JSON.parse of a string made of whole tokens, and the items test on it
ParseTokens(c, list) ==
  LET json == WithoutSpace(c)
  IN  IF json = <<"{", "items", "}">> THEN [ok |-> TRUE, items |-> list]
      ELSE IF json \in {<<"{", "key", "}">>, <<"{", "}">>}
           THEN ParseError("no-items-array")
      ELSE IF json = <<"array">> /\ list = << >>
           THEN ParseError("no-items-array")
      ELSE ParseError("unparseable")

\* a parse of the text as it is, fences and all
ParseContentAsIs(messageContent, list) ==
  ParseTokens(TrimTokens(messageContent), list)

\* lines 210-233: fences off, the text from the first "{" to the last "}",
\* JSON.parse, and the test for an items array.  A match that starts or ends
\* inside the item list parses only when it is the one object of a list of
\* one, an object without items.
ParseContent(messageContent, list) ==
  LET c == TrimTokens(StripClosingFence(StripOpeningFence(TrimTokens(messageContent))))
      opens == {i \in 1..Len(c) : HasOpen(c[i], list)}
      closes == {i \in 1..Len(c) : HasClose(c[i], list)}
  IN  IF opens = {} \/ closes = {} THEN ParseTokens(c, list)
      ELSE LET first == CHOOSE i \in opens : \A j \in opens : i <= j
               last == CHOOSE i \in closes : \A j \in closes : j <= i
           IN  IF last < first \/ (last = first /\ c[first] \in {"{", "}"})
               THEN ParseTokens(c, list)
               ELSE IF c[first] = "{" /\ c[last] = "}"
                    THEN ParseTokens(SubSeq(c, first, last), list)
               ELSE IF first = last /\ Len(list) = 1
                    THEN ParseError("no-items-array")
               ELSE ParseError("unparseable")

\* a callGeminiVision that takes empty content for an empty item list
callGeminiVisionEmptyIsNoItems(resp) ==
  IF resp.kind = "ok" /\ resp.candidates > 0
     /\ TrimTokens(resp.content) = << >>
  THEN [ok |-> TRUE, items |-> << >>]
  ELSE ParseError("failed")

\* a callGeminiVision without the test of the finish reason
callGeminiVisionAnyFinishReason(resp) ==
  IF resp.kind = "timeout" THEN ParseError("timeout")
  ELSE IF resp.kind = "status" THEN ParseError("api-error")
  ELSE IF resp.kind = "no-response" THEN ParseError("no-response")
  ELSE IF resp.candidates = 0
       THEN IF resp.blockReason THEN ParseError("blocked")
            ELSE ParseError("no-candidates")
  ELSE IF TrimTokens(resp.content) = << >> THEN ParseError("empty-content")
  ELSE ParseContent(resp.content, resp.items)

\* what callGeminiVision does with the answer of the service: the rawItems
\* it returns or the error it throws
callGeminiVision(resp) ==
  IF resp.kind = "timeout" THEN ParseError("timeout")
  ELSE IF resp.kind = "status" THEN ParseError("api-error")
  ELSE IF resp.kind = "no-response" THEN ParseError("no-response")
  ELSE IF resp.candidates = 0
       THEN IF resp.blockReason THEN ParseError("blocked")
            ELSE ParseError("no-candidates")
  ELSE IF resp.finishReason = "SAFETY" THEN ParseError("safety")
  ELSE IF resp.finishReason \notin {"", "STOP", "MAX_TOKENS"}
       THEN ParseError("finish-reason")
  ELSE IF TrimTokens(resp.content) = << >> THEN ParseError("empty-content")
  ELSE ParseContent(resp.content, resp.items)

(***************************************************************************)
(* The answers of the recognition service used as inputs.                  *)
(***************************************************************************)
VisionItems ==
  { [name |-> NameApple, qty |-> Num(3), expiresInDays |-> Num(5),
     category |-> "produce", bbox |-> NoBbox],
    [name |-> << >>, qty |-> Num(2), expiresInDays |-> Num(1),
     category |-> "meat", bbox |-> NoBbox] }

VisionBatches == UNION {[1..n -> VisionItems] : n \in 0..MaxBatch}

\* an object with the item list, on one line and on several
Payloads == { <<"{", "items", "}">>, <<"{", "nl", "items", "nl", "}">> }

\* the language tags of an opening fence: none, or json
FenceTags == { << >>, <<"json">> }

\* the payload in a code fence
Fenced(tag, payload) == <<"fence">> \o tag \o <<"nl">> \o payload \o <<"nl", "fence">>

\* texts around an item list
ItemContents ==
  Payloads
  \cup {Fenced(tag, payload) : tag \in FenceTags, payload \in Payloads}
  \cup { <<"{", "items", "}", "nl", "text">>,
         <<"{", "items">>,
         <<"array">> }

\* texts without an item list
OtherContents == { << >>, <<"nl">>, <<"text">>, <<"{", "key", "}">> }

\* "" stands for a candidate without finishReason
FinishReasons == {"", "STOP", "SAFETY", "MAX_TOKENS", "RECITATION"}

Candidate(finishReason, content, list) ==
  [kind |-> "ok", candidates |-> 1, blockReason |-> FALSE,
   finishReason |-> finishReason, content |-> content, items |-> list]

GeminiResponses ==
  {[kind |-> k] : k \in {"timeout", "status", "no-response"}}
  \cup {[kind |-> "ok", candidates |-> 0, blockReason |-> b] : b \in BOOLEAN}
  \cup {Candidate(f, c, list) :
          f \in FinishReasons, c \in ItemContents, list \in VisionBatches}
  \cup {Candidate(f, c, << >>) : f \in FinishReasons, c \in OtherContents}

(***************************************************************************)
(* POST /analyze-fridge with the recognition call looked into: one call of *)
(* the service, then the merge loop or the catch block.                    *)
(***************************************************************************)
AnalyzeFridge(r, limit) ==
  /\ \E resp \in GeminiResponses :
       /\ response' = [response EXCEPT ![r] = resp]
       /\ IF callGeminiVision(resp).ok
          THEN Accepted(r, limit, callGeminiVision(resp).items)
          ELSE Rejected(r, limit)
  /\ calls' = [calls EXCEPT ![r] = 1]
  /\ UNCHANGED otherVars

NextVision ==
  \/ AnalyzeFridge(SeqRequest, MaxVisionObs)
  \/ FindOne(SeqRequest)
  \/ UpdateOne(SeqRequest)
  \/ Respond(SeqRequest)

SpecVision == Init /\ [][NextVision]_vars

(***************************************************************************)
(* Scans whose items all have a name, with the quantities, the days, the   *)
(* categories and the bounding boxes a recognition response may carry.     *)
(***************************************************************************)
DetailedItem(name, qty, expiresInDays, category, bbox) ==
  [name |-> name, qty |-> qty, expiresInDays |-> expiresInDays,
   category |-> category, bbox |-> bbox]

DetailedItems ==
  { DetailedItem(NameApple, Num(3), Num(5), "produce", Box(1, 1, 5, 5)),
    DetailedItem(NameApple, Tenths(25), Tenths(-5), "candy", Box(5, 5, 12, 3)),
    DetailedItem(NameApple, Num(-2), Tenths(14), "Candy", Box(0, 0, 10, 10)),
    DetailedItem(NameApple, NotANumber, Tenths(-15), "SNACKS", Box(5, 5, 0, 3)),
    DetailedItem(NameApple, Tenths(4), NotANumber, CatNotString,
                 <<BoxNum(1), BoxNum(1), BoxNum(5)>>),
    DetailedItem(Name7e, Num(1), Num(0), CatUndefined, NotArrayBbox),
    DetailedItem(Name7e, Tenths(-6), Tenths(45), "DAIRY", Box(-1, 5, 5, 5)),
    DetailedItem(NameApple, Num(1), Num(1), " produce",
                 <<BoxNull, BoxNull, BoxNum(5), BoxNum(5)>>),
    DetailedItem(NameApple, Num(2), Tenths(-4), "meat",
                 <<BoxStr(5), BoxStr(5), BoxStr(5), BoxStr(5)>>),
    DetailedItem(Name7e, Tenths(15), Num(2), "",
                 <<BoxNum(5), BoxNum(5), BoxText, BoxNum(5)>>),
    DetailedItem(Name7e, Num(0), Num(3), "chips", Box(5, 11, 5, -3)),
    DetailedItem(NameApple, Tenths(-25), Num(4), "dairy",
                 <<BoxNum(1), BoxNum(1), BoxNum(5), BoxNum(5), BoxNum(5)>>),
    DetailedItem(Name7e, Num(1), Num(1), "produce",
                 <<BoxTrue, BoxNum(0), BoxTrue, BoxNum(1)>>) }

DetailedBatches == UNION {[1..n -> DetailedItems] : n \in 1..MaxBatch}

\* the service answers with a complete candidate holding the items
AnalyzeDetailed(r, limit) ==
  /\ \E list \in DetailedBatches :
       LET resp == Candidate("STOP", <<"{", "items", "}">>, list)
       IN  /\ response' = [response EXCEPT ![r] = resp]
           /\ IF callGeminiVision(resp).ok
              THEN Accepted(r, limit, callGeminiVision(resp).items)
              ELSE Rejected(r, limit)
  /\ calls' = [calls EXCEPT ![r] = 1]
  /\ UNCHANGED otherVars

NextNorm ==
  \/ AnalyzeDetailed(SeqRequest, MaxNormObs)
  \/ FindOne(SeqRequest)
  \/ UpdateOne(SeqRequest)
  \/ Respond(SeqRequest)

SpecNorm == Init /\ [][NextNorm]_vars

(***************************************************************************)
(* The grocery list: POST /grocery/add-item, DELETE /grocery/item/:id and  *)
(* GET /grocery/compare.  The requests of this part and of the recipe part *)
(* are taken whole, one at a time.                                         *)
(***************************************************************************)
NameSpApple == <<" ", "a", "p", "p", "l", "e">>

Name7E == <<"7", "E">>

GroceryNameInputs == {NameSpApple, Name7E, Name7es, << >>, NoString}

QtyInputs == {Num(2), Tenths(4), Num(0), NotANumber}

CategoryInputs == {CatUndefined, CatNotString, "dairy", " "}

\* category.trim() for the category strings used here
CategoryTrim(c) == IF c = " " THEN "" ELSE c

\* (category && typeof category === 'string' && category.trim()) || 'other'
GroceryCategory(c) ==
  IF c \in {CatUndefined, CatNotString} \/ CategoryTrim(c) = ""
  THEN "other" ELSE CategoryTrim(c)

\* what a grocery or recipe request leaves alone
opsFrame ==
  <<items, pc, normalizedItems, idx, existingItem, updatePayload, status,
    startItems, reads, writes, visionVars, canonVars>>

AddGroceryItem ==
  /\ used + 1 <= MaxOps
  /\ \E name \in GroceryNameInputs, qtyNeeded \in QtyInputs,
        category \in CategoryInputs :
       LET trimmedName == IF IsString(name) THEN Trim(name) ELSE << >>
           rejected == \/ trimmedName = << >>
                       \/ ~qtyNeeded.fin \/ qtyNeeded.x10 <= 0
                       \/ category = CatNotString
           doc == [_id |-> nextId,
                   name |-> toTitleCase(trimmedName),
                   qtyNeeded |-> MathRound(qtyNeeded.x10),
                   category |-> GroceryCategory(category),
                   createdAt |-> clock + 1]
       IN  IF rejected
           THEN /\ groceryList' = groceryList
                /\ nextId' = nextId
                /\ reply' = [op |-> "add-item", status |-> 400]
           ELSE /\ groceryList' = Append(groceryList, doc)
                /\ nextId' = nextId + 1
                /\ reply' = [op |-> "add-item", status |-> 200]
  /\ used' = used + 1
  /\ clock' = clock + 1
  /\ UNCHANGED <<recipes, opsFrame>>

\* the id of the request: 0 stands for one ObjectId.isValid rejects
DeleteGroceryItem ==
  /\ used + 1 <= MaxOps
  /\ \E id \in 0..nextId :
       IF id = 0
       THEN /\ groceryList' = groceryList
            /\ reply' = [op |-> "delete", status |-> 400]
       ELSE /\ groceryList' = SelectSeq(groceryList, LAMBDA d : d._id # id)
            /\ reply' = [op |-> "delete", status |-> 200]
  /\ used' = used + 1
  /\ clock' = clock + 1
  /\ UNCHANGED <<recipes, nextId, opsFrame>>

\* name.toLowerCase().trim()
NormalizeName(name) == Trim(LowerStr(name))

\* the names fridgeMap, made from the literal {}, inherits from
\* Object.prototype that a lower-case, trimmed key can be equal to
ProtoConstructor == <<"c", "o", "n", "s", "t", "r", "u", "c", "t", "o", "r">>

ProtoProto == <<"_", "_", "p", "r", "o", "t", "o", "_", "_">>

ObjectPrototypeKeys == {ProtoConstructor, ProtoProto}

\* Number.isFinite(doc[field]) ? doc[field] : 0, for a stored field that is
\* an integer when it is there; a field that is missing or holds no number is
\* left out of the record
FiniteOrZero(doc, field) == IF field \in DOMAIN doc THEN doc[field] ELSE 0

\* typeof item.name === 'string' ? item.name.toLowerCase().trim() : ''
ItemKey(name) == IF IsString(name) THEN NormalizeName(name) ELSE << >>

\* the quantities of the documents whose key is n, added up by the reduce
RECURSIVE OwnSum(_, _)
OwnSum(coll, n) ==
  IF coll = << >> THEN 0
  ELSE (IF ItemKey(Head(coll).doc.name) = n
        THEN FiniteOrZero(Head(coll).doc, "qty") ELSE 0)
       + OwnSum(Tail(coll), n)

\* the reduce has assigned fridgeMap[n]
HasOwn(coll, n) == \E i \in 1..Len(coll) : ItemKey(coll[i].doc.name) = n

\* fridgeMap[n] for a non-empty n.  defined is FALSE for undefined; fin is
\* FALSE for a value that is no number: under "constructor" the function
\* Object, or the string that (Object || 0) + qty makes of it, and under
\* "__proto__" the prototype, which an assignment of a string leaves in place
FridgeMapGet(coll, n) ==
  IF n \in ObjectPrototypeKeys
  THEN [defined |-> TRUE, fin |-> FALSE, x10 |-> 0]
  ELSE IF HasOwn(coll, n)
       THEN [defined |-> TRUE, fin |-> TRUE, x10 |-> 10 * OwnSum(coll, n)]
       ELSE [defined |-> FALSE, fin |-> FALSE, x10 |-> 0]

\* fridgeMap[n] || 0
InFridge(coll, n) ==
  LET v == FridgeMapGet(coll, n)
  IN  IF v.defined /\ ~(v.fin /\ v.x10 = 0)
      THEN [fin |-> v.fin, x10 |-> v.x10]
      ELSE Num(0)

\* needed = Number.isFinite(grocery.qtyNeeded) ? grocery.qtyNeeded : 0
Needed(grocery) == FiniteOrZero(grocery, "qtyNeeded")

ComparePayload(coll, grocery) ==
  [name |-> toTitleCase(grocery.name),
   qtyNeeded |-> Needed(grocery),
   qtyInFridge |-> InFridge(coll, ItemKey(grocery.name))]

\* a comparison of inFridge with a number is false when inFridge is no number
GreaterEq(inFridge, n) == inFridge.fin /\ inFridge.x10 >= 10 * n

Greater(inFridge, n) == inFridge.fin /\ inFridge.x10 > 10 * n

Less(inFridge, n) == inFridge.fin /\ inFridge.x10 < 10 * n

\* a comparison that puts an entry with nothing needed among the satisfied
BucketZeroNeedSatisfied(inFridge, needed) ==
  IF GreaterEq(inFridge, needed) THEN "fullySatisfied"
  ELSE IF Greater(inFridge, 0) /\ Less(inFridge, needed) THEN "partiallySatisfied"
  ELSE "missing"

\* a comparison without the middle branch
BucketNoPartial(inFridge, needed) ==
  IF GreaterEq(inFridge, needed) /\ needed > 0 THEN "fullySatisfied"
  ELSE "missing"

\* the if / else if / else of the comparison
Bucket(inFridge, needed) ==
  IF GreaterEq(inFridge, needed) /\ needed > 0 THEN "fullySatisfied"
  ELSE IF Greater(inFridge, 0) /\ Less(inFridge, needed) THEN "partiallySatisfied"
  ELSE "missing"

\* the entries the forEach does not return early on
NamedGroceries(groceries) ==
  SelectSeq(groceries, LAMBDA g : ItemKey(g.name) # << >>)

\* toTitleCase(grocery.name || '') throws when it is given a value that is
\* no string
CompareThrows(groceries) ==
  \E i \in 1..Len(NamedGroceries(groceries)) :
    ~IsString(NamedGroceries(groceries)[i].name)

\* result[bucket] after the forEach over the grocery list
CompareBucket(coll, groceries, bucket) ==
  LET named == NamedGroceries(groceries)
      payloads == [i \in 1..Len(named) |-> ComparePayload(coll, named[i])]
  IN  SelectSeq(payloads, LAMBDA p : Bucket(p.qtyInFridge, p.qtyNeeded) = bucket)

Compare ==
  /\ used + 1 <= MaxOps
  /\ reply' =
       IF CompareThrows(groceryList)
       THEN [op |-> "compare", status |-> 500]
       ELSE [op |-> "compare", status |-> 200,
             fullySatisfied |->
               CompareBucket(items, groceryList, "fullySatisfied"),
             partiallySatisfied |->
               CompareBucket(items, groceryList, "partiallySatisfied"),
             missing |-> CompareBucket(items, groceryList, "missing")]
  /\ used' = used + 1
  /\ clock' = clock + 1
  /\ UNCHANGED <<groceryList, recipes, nextId, opsFrame>>

(***************************************************************************)
(* Recipes: GET /recipes/recommend, POST /recipes/add-missing-to-grocery   *)
(* and POST /recipes/generate.  Of a recipe's text fields (description,    *)
(* instructions, category, imgUrl), all handled alike, description stands  *)
(* for all.                                                                *)
(***************************************************************************)
UntitledRecipe ==
  <<"U", "n", "t", "i", "t", "l", "e", "d", " ", "R", "e", "c", "i", "p", "e">>

\* a description that is not a string
NoText == "<not a string>"

\* an element of an ingredients array that is null
NullIngredient == [null |-> TRUE]

\* {name: typeof ing?.name === 'string' ? ing.name : '',
\*  qty: Number.isFinite(ing?.qty) ? ing.qty : 0}
SanitizeIngredient(ing) ==
  IF ing = NullIngredient THEN [name |-> << >>, qty |-> Num(0)]
  ELSE [name |-> IF IsString(ing.name) THEN ing.name ELSE << >>,
        qty |-> IF ing.qty.fin THEN ing.qty ELSE Num(0)]

\* a sanitizeRecipe that passes the ingredients on as they are
sanitizeRecipeKeepsIngredients(doc) ==
  [doc EXCEPT
     !.title = IF IsString(doc.title) /\ Trim(doc.title) # << >>
               THEN Trim(doc.title) ELSE UntitledRecipe,
     !.description = IF doc.description = NoText THEN "" ELSE doc.description]

\* isArray is FALSE for a document whose ingredients field holds a value that
\* is no array
sanitizeRecipe(doc) ==
  [doc EXCEPT
     !.title = IF IsString(doc.title) /\ Trim(doc.title) # << >>
               THEN Trim(doc.title) ELSE UntitledRecipe,
     !.description = IF doc.description = NoText THEN "" ELSE doc.description,
     !.isArray = TRUE,
     !.ingredients =
        IF doc.isArray
        THEN [i \in 1..Len(doc.ingredients) |->
                SanitizeIngredient(doc.ingredients[i])]
        ELSE << >>]

\* (safeRecipe.ingredients || []).forEach throws on a value that is no array,
\* and ing.name throws on an element that is null
RecipeThrows(safeRecipe) ==
  \/ ~safeRecipe.isArray
  \/ \E i \in 1..Len(safeRecipe.ingredients) :
       safeRecipe.ingredients[i] = NullIngredient

RecommendThrows(rs) ==
  \E i \in 1..Len(rs) : RecipeThrows(sanitizeRecipe(rs[i]))

\* fridgeMap[n] !== undefined for a non-empty n
InFridgeMap(coll, n) == FridgeMapGet(coll, n).defined

\* basePayload of a recipe
RecipePayload(coll, recipe) ==
  LET safeRecipe == sanitizeRecipe(recipe)
      named == SelectSeq(safeRecipe.ingredients,
                         LAMBDA ing : NormalizeName(ing.name) # << >>)
      available == SelectSeq(named,
                     LAMBDA ing : InFridgeMap(coll, NormalizeName(ing.name)))
      missing == SelectSeq(named,
                   LAMBDA ing : ~InFridgeMap(coll, NormalizeName(ing.name)))
  IN  [title |-> safeRecipe.title,
       recipeId |-> safeRecipe._id,
       missingIngredients |->
         [i \in 1..Len(missing) |->
            [name |-> missing[i].name,
             qtyNeeded |-> IF missing[i].qty.fin THEN missing[i].qty ELSE Num(1)]],
       availableIngredients |-> [i \in 1..Len(available) |-> available[i].name],
       ingredients |-> safeRecipe.ingredients]

\* a classifier that lists a recipe with three missing ingredients
RecipeBucketUpToThree(missingCount) ==
  IF missingCount = 0 THEN "fullyMakeable"
  ELSE IF missingCount <= 3 THEN "almostMakeable"
  ELSE "dropped"

\* if (length === 0) fullyMakeable else if (length <= 2) almostMakeable
RecipeBucket(missingCount) ==
  IF missingCount = 0 THEN "fullyMakeable"
  ELSE IF missingCount <= 2 THEN "almostMakeable"
  ELSE "dropped"

RecipePayloads(coll, rs) == [i \in 1..Len(rs) |-> RecipePayload(coll, rs[i])]

Recommend ==
  /\ used + 1 <= MaxOps
  /\ reply' =
       IF RecommendThrows(recipes)
       THEN [op |-> "recommend", status |-> 500]
       ELSE [op |-> "recommend", status |-> 200,
             fullyMakeable |->
               SelectSeq(RecipePayloads(items, recipes),
                         LAMBDA p : RecipeBucket(Len(p.missingIngredients))
                                      = "fullyMakeable"),
             almostMakeable |->
               SelectSeq(RecipePayloads(items, recipes),
                         LAMBDA p : RecipeBucket(Len(p.missingIngredients))
                                      = "almostMakeable")]
  /\ used' = used + 1
  /\ clock' = clock + 1
  /\ UNCHANGED <<groceryList, recipes, nextId, opsFrame>>

\* the lists a request may carry as missingIngredients
MissingInputs ==
  { << >>,
    <<[name |-> NameSpApple, qtyNeeded |-> Num(2), category |-> CatUndefined]>>,
    <<[name |-> NoString, qtyNeeded |-> Num(1), category |-> "dairy"],
      [name |-> Name7E, qtyNeeded |-> Tenths(4), category |-> " "]>>,
    <<[name |-> Name7E, qtyNeeded |-> NotANumber, category |-> CatNotString],
      [name |-> Name7E, qtyNeeded |-> Num(0), category |-> "dairy"]>> }

\* the missingIngredients lists of the last recommendation, as the pages send
\* them back
RecommendedMissing ==
  IF reply.op # "recommend" THEN {}
  ELSE LET listed == reply.fullyMakeable \o reply.almostMakeable
       IN  {[i \in 1..Len(listed[j].missingIngredients) |->
               [name |-> listed[j].missingIngredients[i].name,
                qtyNeeded |-> listed[j].missingIngredients[i].qtyNeeded,
                category |-> CatUndefined]] : j \in 1..Len(listed)}

\* the test that lets an item of missingIngredients into inserts
Insertable(item) ==
  /\ IsString(item.name) /\ Trim(item.name) # << >>
  /\ item.qtyNeeded.fin /\ item.qtyNeeded.x10 > 0

\* inserts, with the _id insertMany gives each
Inserts(missingIngredients, now, newId) ==
  LET ok == SelectSeq(missingIngredients, Insertable)
  IN  [i \in 1..Len(ok) |->
         [_id |-> newId + i - 1,
          name |-> toTitleCase(Trim(ok[i].name)),
          qtyNeeded |-> MathRound(ok[i].qtyNeeded.x10),
          category |-> GroceryCategory(ok[i].category),
          createdAt |-> now]]

\* hasRecipeId is FALSE for a body without recipeId, isArray for one whose
\* missingIngredients is no array
AddMissingToGrocery ==
  /\ used + 1 <= MaxOps
  /\ \E hasRecipeId \in BOOLEAN, isArray \in BOOLEAN,
        missingIngredients \in MissingInputs \cup RecommendedMissing :
       IF ~hasRecipeId \/ ~isArray
       THEN /\ groceryList' = groceryList
            /\ nextId' = nextId
            /\ reply' = [op |-> "add-missing", status |-> 400]
       ELSE LET inserts == Inserts(missingIngredients, clock + 1, nextId)
            IN  /\ groceryList' = groceryList \o inserts
                /\ nextId' = nextId + Len(inserts)
                /\ reply' = [op |-> "add-missing", status |-> 200,
                             inserted |-> Len(inserts),
                             missingIngredients |-> missingIngredients]
  /\ used' = used + 1
  /\ clock' = clock + 1
  /\ UNCHANGED <<recipes, opsFrame>>

NamePie == <<"p", "i", "e">>

NameSpPie == <<" ", "p", "i", "e">>

\* the recipes callGeminiForRecipes may return
RawRecipes ==
  { [title |-> NamePie, description |-> "d1", isArray |-> TRUE,
     ingredients |-> <<[name |-> NameApple, qty |-> Num(2)],
                       [name |-> Name7E, qty |-> NotANumber]>>],
    [title |-> NameSpPie, description |-> NoText, isArray |-> TRUE,
     ingredients |-> <<[name |-> NoString, qty |-> Num(1)],
                       [name |-> Name7es, qty |-> Tenths(5)]>>],
    [title |-> NoString, description |-> "d2", isArray |-> FALSE,
     ingredients |-> << >>] }

RecipeBatches == UNION {[1..n -> RawRecipes] : n \in 0..MaxList}

\* an insertOne in the place of the upsert
InsertRecipe(coll, sanitized, now, newId) ==
  Append(coll, [_id |-> newId,
                title |-> sanitized.title,
                description |-> sanitized.description,
                isArray |-> sanitized.isArray,
                ingredients |-> sanitized.ingredients,
                createdAt |-> now])

\* updateOne({title}, {$set: rest, $setOnInsert: {createdAt}}, {upsert: true})
UpsertRecipe(coll, sanitized, now, newId) ==
  LET m == {i \in 1..Len(coll) : coll[i].title = sanitized.title}
  IN  IF m = {}
      THEN Append(coll, [_id |-> newId,
                         title |-> sanitized.title,
                         description |-> sanitized.description,
                         isArray |-> sanitized.isArray,
                         ingredients |-> sanitized.ingredients,
                         createdAt |-> now])
      ELSE LET t == CHOOSE i \in m : \A j \in m : i <= j
           IN  [coll EXCEPT ![t] = [@ EXCEPT
                  !.title = sanitized.title,
                  !.description = sanitized.description,
                  !.isArray = sanitized.isArray,
                  !.ingredients = sanitized.ingredients]]

\* the for...of loop over generated
RECURSIVE UpsertRecipes(_, _, _, _)
UpsertRecipes(coll, generated, now, newId) ==
  IF generated = << >> THEN coll
  ELSE LET next == UpsertRecipe(coll, sanitizeRecipe(Head(generated)), now, newId)
       IN  UpsertRecipes(next, Tail(generated), now,
                         IF Len(next) > Len(coll) THEN newId + 1 ELSE newId)

\* failed is TRUE when callGeminiForRecipes throws
GenerateRecipes ==
  /\ used + 1 <= MaxOps
  /\ \E failed \in BOOLEAN, generated \in RecipeBatches :
       IF failed
       THEN /\ recipes' = recipes
            /\ reply' = [op |-> "generate", status |-> 500]
       ELSE /\ recipes' = UpsertRecipes(recipes, generated, clock + 1, nextId)
            /\ reply' = [op |-> "generate", status |-> 200,
                         generated |-> generated]
  /\ nextId' = nextId + Len(recipes') - Len(recipes)
  /\ used' = used + 1
  /\ clock' = clock + 1
  /\ UNCHANGED <<groceryList, opsFrame>>

\* every kind of request, the scans one at a time
NextOps ==
  \/ StartScan(SeqRequest, MaxOps)
  \/ ScanFails(SeqRequest, MaxOps)
  \/ FindOne(SeqRequest)
  \/ UpdateOne(SeqRequest)
  \/ Respond(SeqRequest)
  \/ AddGroceryItem
  \/ DeleteGroceryItem
  \/ Compare
  \/ Recommend
  \/ AddMissingToGrocery
  \/ GenerateRecipes

SpecOps == Init /\ [][NextOps]_vars

(***************************************************************************)
(* The comparison and the recipe classification over stored data.  The     *)
(* collections have no schema: besides what the requests above write, they *)
(* may hold documents written by earlier versions or by hand, with a name  *)
(* that is no string, without quantity, or with ingredients that are no    *)
(* array.  The comparison does not read the recipes and the classification *)
(* does not read the grocery list, so one of the two is drawn empty.       *)
(***************************************************************************)
NameConstructor == toTitleCase(ProtoConstructor)

\* the fields of an items document the two requests read
StoredItems ==
  { [name |-> NameApple, qty |-> 2],
    [name |-> NameSpApple, qty |-> 3],
    [name |-> Name7e, qty |-> 0],
    [name |-> NoString, qty |-> 2],
    [name |-> NameApple],
    [name |-> NameConstructor, qty |-> 2] }

StoredGroceries ==
  { [name |-> NameApple, qtyNeeded |-> 5, category |-> "other"],
    [name |-> NameApple, qtyNeeded |-> 2, category |-> "other"],
    [name |-> NameApple, qtyNeeded |-> 0, category |-> "other"],
    [name |-> Name7E, qtyNeeded |-> 1, category |-> "dairy"],
    [name |-> NameConstructor, qtyNeeded |-> 1, category |-> "other"],
    [name |-> NoString, category |-> "other"] }

StoredRecipes ==
  { [title |-> NamePie, description |-> "d1", isArray |-> TRUE,
     ingredients |-> <<[name |-> NameApple, qty |-> Num(2)],
                       [name |-> Name7E, qty |-> NotANumber]>>],
    [title |-> NameSpPie, description |-> NoText, isArray |-> TRUE,
     ingredients |-> <<[name |-> NamePie, qty |-> Num(1)],
                       [name |-> Name7es, qty |-> Num(2)],
                       [name |-> NameDash, qty |-> Num(1)]>>],
    [title |-> NoString, description |-> "d2", isArray |-> FALSE,
     ingredients |-> << >>],
    [title |-> NamePie, description |-> "d3", isArray |-> TRUE,
     ingredients |-> <<[name |-> ProtoConstructor, qty |-> Num(1)],
                       NullIngredient,
                       [name |-> NoString, qty |-> Num(1)]>>] }

\* the lists of up to MaxList documents, _id and createdAt by position
ItemLists ==
  UNION {{[i \in 1..n |-> [_id |-> i, doc |-> f[i]]] : f \in [1..n -> StoredItems]}
           : n \in 0..MaxList}

GroceryLists ==
  UNION {{[i \in 1..n |-> f[i] @@ [_id |-> i, createdAt |-> 0]]
            : f \in [1..n -> StoredGroceries]} : n \in 0..MaxList}

RecipeLists ==
  UNION {{[i \in 1..n |-> f[i] @@ [_id |-> i, createdAt |-> 0]]
            : f \in [1..n -> StoredRecipes]} : n \in 0..MaxList}

InitRead ==
  /\ items \in ItemLists
  /\ \/ groceryList \in GroceryLists /\ recipes = << >>
     \/ groceryList = << >> /\ recipes \in RecipeLists
  /\ reply = NoReply
  /\ pc = [r \in Requests |-> "idle"]
  /\ normalizedItems = [r \in Requests |-> << >>]
  /\ idx = [r \in Requests |-> 0]
  /\ existingItem = [r \in Requests |-> 0]
  /\ updatePayload = [r \in Requests |-> << >>]
  /\ status = [r \in Requests |-> "none"]
  /\ clock = 0
  /\ used = 0
  /\ nextId = MaxList + 1
  /\ startItems = [r \in Requests |-> << >>]
  /\ reads = [r \in Requests |-> 0]
  /\ writes = [r \in Requests |-> 0]
  /\ InitVision
  /\ InitCanonIdle

NextRead == Compare \/ Recommend

SpecRead == InitRead /\ [][NextRead]_vars

(***************************************************************************)
(* One loop turn with nothing in between its findOne and its updateOne,    *)
(* and a sequence of such turns.                                           *)
(***************************************************************************)
MergeOne(coll, item, cropped, newId) ==
  UpsertOne(coll,
            MakePayload(item,
                        ExistingQty(coll,
                                    FirstMatch(coll, item.canonicalName,
                                               generateNameVariants(item.canonicalName))),
                        cropped),
            newId)

RECURSIVE MergeAll(_, _, _)
MergeAll(coll, obs, newId) ==
  IF obs = << >> THEN coll
  ELSE MergeAll(MergeOne(coll, Head(obs), FALSE, newId), Tail(obs), newId + 1)


(***************************************************************************)
(* canonicalizeName on its own: a name is drawn, then canonicalised.       *)
(***************************************************************************)
CanonChars == {"a", "e", "i", "s", "y", "S", "7", " ", "-"}

CanonNames == UNION {[1..n -> CanonChars] : n \in 0..MaxNameLen}

InitCanon ==
  /\ InitScan
  /\ InitOps
  /\ cIn \in CanonNames
  /\ cOut = << >>
  /\ cDone = FALSE

Canonicalize ==
  /\ ~cDone
  /\ cOut' = canonicalizeName(cIn)
  /\ cDone' = TRUE
  /\ UNCHANGED <<cIn, scanVars, visionVars, opsVars>>

NextCanon == Canonicalize

SpecCanon == InitCanon /\ [][NextCanon]_vars

(***************************************************************************)
(* Helpers of the properties.                                              *)
(***************************************************************************)
\* the request has merged its whole batch
Merged(r) == pc[r] \in {"respond", "done"}

\* the quantity a collection holds for a canonical name: that of the document
\* the filter resolves to, 0 when it resolves to none
QtyFor(coll, canonicalName) ==
  ExistingQty(coll, FirstMatch(coll, canonicalName,
                               generateNameVariants(canonicalName)))

RECURSIVE SumQty(_)
SumQty(obs) == IF obs = << >> THEN 0 ELSE Head(obs).qty + SumQty(Tail(obs))

\* every observation of the sequence carries the canonical name k
AllKey(obs, k) == \A i \in 1..Len(obs) : obs[i].canonicalName = k

(***************************************************************************)
(* C1: after any sequence of scans, served one at a time from a collection *)
(* without duplicates, no two documents of the items collection have the   *)
(* same canonicalName.                                                     *)
(***************************************************************************)
C1_UniqueCanonicalName ==
  \A i, j \in 1..Len(items) :
    i # j => items[i].doc.canonicalName # items[j].doc.canonicalName

(***************************************************************************)
(* C2: when two requests, one accepted right after the other, each merge   *)
(* one observation of the same canonical name, then once both have ended   *)
(* the quantity stored for that name is the quantity stored before the     *)
(* first of them started plus both observed quantities, however their      *)
(* findOne and updateOne calls interleaved.                                *)
(***************************************************************************)
C2_ConcurrentMergesBothCount ==
  \A r, q \in Requests :
    ( /\ r # q
      /\ Merged(r) /\ Merged(q)
      /\ Len(normalizedItems[r]) = 1 /\ Len(normalizedItems[q]) = 1
      /\ normalizedItems[r][1].canonicalName = normalizedItems[q][1].canonicalName
      /\ normalizedItems[q][1].detectedAt = normalizedItems[r][1].detectedAt + 1 )
    => QtyFor(items, normalizedItems[r][1].canonicalName)
         = QtyFor(startItems[r], normalizedItems[r][1].canonicalName)
           + normalizedItems[r][1].qty + normalizedItems[q][1].qty

\* two requests that observed the same name have both ended
C2_Witness ==
  /\ Merged("r1") /\ Merged("r2")
  /\ Len(normalizedItems["r1"]) = 1 /\ Len(normalizedItems["r2"]) = 1
  /\ normalizedItems["r1"][1].canonicalName = normalizedItems["r2"][1].canonicalName
  /\ normalizedItems["r2"][1].detectedAt = normalizedItems["r1"][1].detectedAt + 1
  /\ normalizedItems["r1"][1].qty > 0 /\ normalizedItems["r2"][1].qty > 0

(***************************************************************************)
(* C4: when the collection holds one document named "Apple" with quantity  *)
(* 3 and a scan observes "apples" with quantity 2, the collection          *)
(* afterwards still holds one document, with quantity 5, name "Apples" and *)
(* canonicalName "apple".                                                  *)
(***************************************************************************)
C4_AppleThenApples ==
  \A r \in Requests :
    ( /\ Merged(r)
      /\ Len(startItems[r]) = 1
      /\ startItems[r][1].doc.name = NameApple
      /\ startItems[r][1].doc.qty = 3
      /\ Len(normalizedItems[r]) = 1
      /\ normalizedItems[r][1].name = capitalizeWords(NameApples)
      /\ normalizedItems[r][1].qty = 2 )
    => /\ Len(items) = 1
       /\ items[1].doc.qty = 5
       /\ items[1].doc.name = capitalizeWords(NameApples)
       /\ items[1].doc.canonicalName = <<"a", "p", "p", "l", "e">>

(***************************************************************************)
(* C5: canonicalizeName is idempotent: canonicalising its own result gives *)
(* that result again.                                                      *)
(***************************************************************************)
C5_Idempotent == cDone => canonicalizeName(cOut) = cOut


(***************************************************************************)
(* C3: from any inventory the scans reach, merging a sequence of           *)
(* observations of one canonical name one after another leaves the         *)
(* document they resolve to with the quantity it had plus the sum of the   *)
(* observed quantities, and every permutation of the sequence leaves it    *)
(* with that same quantity.                                                *)
(***************************************************************************)
\* the observations normalizeItems can produce at time now
NormObs(now) == {NormalizeOne(it, now) : it \in {x \in RawItems : Kept(x)}}

SameKeySeqs(k, now) ==
  UNION {[1..n -> {o \in NormObs(now) : o.canonicalName = k}] : n \in 1..MaxSeqLen}

Perms(obs) ==
  {[i \in 1..Len(obs) |-> obs[f[i]]] :
     f \in {g \in [1..Len(obs) -> 1..Len(obs)] :
              \A a, b \in 1..Len(obs) : a # b => g[a] # g[b]}}

\* where the first observation of canonical name k lands in coll
ResolveIdx(coll, k) ==
  LET t == FirstMatch(coll, k, generateNameVariants(k))
  IN  IF t = 0 THEN Len(coll) + 1 ELSE t

C3_SumInAnyOrder ==
  \A k \in {o.canonicalName : o \in NormObs(clock + 1)} :
    \A obs \in SameKeySeqs(k, clock + 1) :
      LET t == ResolveIdx(items, k)
          final == MergeAll(items, obs, nextId)[t].doc.qty
      IN  /\ final = QtyFor(items, k) + SumQty(obs)
          /\ \A p \in Perms(obs) : MergeAll(items, p, nextId)[t].doc.qty = final

\* a scan has merged "7es" and then "7", two observations of one canonical
\* name with different quantities, into a document that was there before
C3_Witness ==
  \E r \in Requests :
    /\ Merged(r)
    /\ Len(normalizedItems[r]) = 2
    /\ normalizedItems[r][1].name = Name7es
    /\ normalizedItems[r][2].name = Name7
    /\ QtyFor(startItems[r], Name7) > 0
    /\ QtyFor(items, Name7) = QtyFor(startItems[r], Name7) + 3

(***************************************************************************)
(* C6: every stored quantity is a non-negative integer, and no step of any *)
(* scan request, however the requests interleave, lowers the quantity of a *)
(* document of the collection.                                             *)
(***************************************************************************)
C6_QuantityNeverLowered ==
  [][ /\ \A i \in 1..Len(items) : items[i].doc.qty \in Nat
      /\ \A i \in 1..Len(items') : items'[i].doc.qty \in Nat
      /\ \A i \in 1..Len(items) :
           i <= Len(items') /\ items'[i].doc.qty >= items[i].doc.qty ]_vars

(***************************************************************************)
(* C7: within one scan request the findOne for an observation is issued    *)
(* only after the updateOne for the observation before it has completed,   *)
(* and when the observations of the batch all resolve to one canonical     *)
(* name, the stored quantity after the batch is the quantity stored when   *)
(* the request started plus all the observed quantities.                   *)
(***************************************************************************)
C7_BatchMergedOneAtATime ==
  \A r \in Requests :
    /\ pc[r] = "read" => reads[r] = writes[r] /\ writes[r] = idx[r] - 1
    /\ pc[r] = "write" => reads[r] = writes[r] + 1 /\ reads[r] = idx[r]
    /\ Merged(r) =>
         /\ reads[r] = Len(normalizedItems[r])
         /\ writes[r] = Len(normalizedItems[r])
         /\ \A k \in {normalizedItems[r][i].canonicalName :
                        i \in 1..Len(normalizedItems[r])} :
              AllKey(normalizedItems[r], k) =>
                QtyFor(items, k)
                  = QtyFor(startItems[r], k) + SumQty(normalizedItems[r])

\* the second findOne of a batch of two observations of one canonical name is
\* about to be issued, after the first updateOne
C7_Witness ==
  \E r \in Requests :
    /\ pc[r] = "read" /\ idx[r] = 2 /\ writes[r] = 1
    /\ normalizedItems[r][1].canonicalName = normalizedItems[r][2].canonicalName
    /\ normalizedItems[r][1].qty > 0 /\ normalizedItems[r][2].qty > 0
    /\ QtyFor(items, normalizedItems[r][1].canonicalName)
         = QtyFor(startItems[r], normalizedItems[r][1].canonicalName)
           + normalizedItems[r][1].qty

(***************************************************************************)
(* C8: a merge changes exactly one document.  When documents match the     *)
(* filter, the updateOne sets the fields of the one findOne returned, a    *)
(* matching one, and leaves every other document as it was, also when      *)
(* several match; when none matches it appends one document.  No other     *)
(* step of a scan changes the collection.                                  *)
(***************************************************************************)
\* request r takes its updateOne step
Writes(r) == pc[r] = "write" /\ pc'[r] # "write"

C8_ExactlyOneDocument ==
  [][ /\ (\A r \in Requests : ~Writes(r)) => items' = items
      /\ \A r \in Requests :
           Writes(r) =>
             LET m == MatchSet(items, updatePayload[r].canonicalName,
                               generateNameVariants(updatePayload[r].canonicalName))
                 t == existingItem[r]
             IN  IF m # {}
                 THEN /\ t \in m
                      /\ Len(items') = Len(items)
                      /\ items'[t].doc = updatePayload[r]
                      /\ \A i \in 1..Len(items) : i # t => items'[i] = items[i]
                 ELSE /\ t = 0
                      /\ items' = Append(items, [_id |-> nextId,
                                                 doc |-> updatePayload[r]]) ]_vars

\* a scan of one observation that two documents matched has been merged, and
\* the collection differs from before in the first of them only
C8_Witness ==
  \E r \in Requests :
    /\ Merged(r)
    /\ Len(normalizedItems[r]) = 1
    /\ LET k == normalizedItems[r][1].canonicalName
           m == MatchSet(startItems[r], k, generateNameVariants(k))
       IN  /\ Cardinality(m) >= 2
           /\ existingItem[r] \in m
           /\ Len(items) = Len(startItems[r])
           /\ items[existingItem[r]] # startItems[r][existingItem[r]]
           /\ \A i \in 1..Len(items) :
                i # existingItem[r] => items[i] = startItems[r][i]

(***************************************************************************)
(* C9: when an observation resolves to an existing document, the           *)
(* updateOne leaves it with the observation's expiresInDays, category,     *)
(* bbox, detectedAt, names and image references, and with the quantity     *)
(* max(0, existing quantity + observed quantity): of the fields the scan   *)
(* writes, the quantity alone carries over from the existing document.     *)
(***************************************************************************)
C9_MetadataOverwritten ==
  [][ \A r \in Requests :
        (Writes(r) /\ existingItem[r] # 0) =>
          LET t == existingItem[r]
              item == normalizedItems[r][idx[r]]
              new == items'[t].doc
          IN  /\ new.expiresInDays = item.expiresInDays
              /\ new.category = item.category
              /\ new.detectedAt = item.detectedAt
              /\ new.bbox = item.bbox
              /\ new.name = item.name
              /\ new.canonicalName = item.canonicalName
              /\ new.imageData.img = item.detectedAt
              /\ new.imageData.kind \in {"crop", "full"}
              /\ new.imageData.kind = "crop" => item.bbox # NoBbox
              /\ new.fullImageData = item.detectedAt
              /\ new.qty = MathMax(0, items[t].doc.qty + item.qty)
              /\ items'[t]._id = items[t]._id ]_vars

\* a scan has merged one observation into a document of another category and
\* expiry: the document has the observation's, and both quantities
C9_Witness ==
  \E r \in Requests :
    /\ Merged(r)
    /\ Len(normalizedItems[r]) = 1
    /\ existingItem[r] # 0
    /\ LET t == existingItem[r]
           item == normalizedItems[r][1]
       IN  /\ startItems[r][t].doc.category # item.category
           /\ startItems[r][t].doc.expiresInDays # item.expiresInDays
           /\ startItems[r][t].doc.qty > 0 /\ item.qty > 0
           /\ items[t].doc.category = item.category
           /\ items[t].doc.expiresInDays = item.expiresInDays
           /\ items[t].doc.qty = startItems[r][t].doc.qty + item.qty


(***************************************************************************)
(* C10: no request of the current code removes a document of the items     *)
(* collection: across scans, comparisons, recommendations, grocery and     *)
(* recipe requests, every _id the collection holds it still holds after    *)
(* the next step, and the collection never gets shorter.                   *)
(***************************************************************************)
ItemIds(coll) == {coll[i]._id : i \in 1..Len(coll)}

C10_NoItemRemoved ==
  [][ItemIds(items) \subseteq ItemIds(items') /\ Len(items') >= Len(items)]_vars

\* the document the first request inserted is still there after a grocery or
\* recipe request and a third request, a scan that merged into it
C10_Witness ==
  /\ Len(items) = 1
  /\ items[1]._id = 1
  /\ items[1].doc.detectedAt = 3
  /\ reply.op # "none"
  /\ \E r \in Requests :
       /\ Merged(r) /\ existingItem[r] = 1
       /\ startItems[r][1].doc.detectedAt = 1

(***************************************************************************)
(* Helpers of the properties about the comparison and the classification.  *)
(***************************************************************************)
\* the last request was a comparison that returned its three buckets
Compared == reply.op = "compare" /\ reply.status = 200

\* the last request was a classification that returned its two lists
Recommended == reply.op = "recommend" /\ reply.status = 200

InSeq(x, s) == \E i \in 1..Len(s) : s[i] = x

Count(s, x) == Cardinality({i \in 1..Len(s) : s[i] = x})

\* name and qtyNeeded of a reported entry
Entry(p) == [name |-> p.name, qtyNeeded |-> p.qtyNeeded]

EntriesOf(s) == [i \in 1..Len(s) |-> Entry(s[i])]

\* what the comparison is to report of the grocery entries that have a name
ExpectedEntries ==
  LET named == NamedGroceries(groceryList)
  IN  [i \in 1..Len(named) |->
         [name |-> toTitleCase(named[i].name), qtyNeeded |-> Needed(named[i])]]

AllBuckets == reply.fullySatisfied \o reply.partiallySatisfied \o reply.missing

C12_ZeroIsMissing ==
  Compared =>
    /\ \A i \in 1..Len(reply.fullySatisfied) :
         /\ reply.fullySatisfied[i].qtyNeeded # 0
         /\ reply.fullySatisfied[i].qtyInFridge # Num(0)
    /\ \A i \in 1..Len(reply.partiallySatisfied) :
         /\ reply.partiallySatisfied[i].qtyNeeded # 0
         /\ reply.partiallySatisfied[i].qtyInFridge # Num(0)
    /\ \A i \in 1..Len(ExpectedEntries) :
         ( \/ ExpectedEntries[i].qtyNeeded = 0
           \/ OwnSum(items, ItemKey(NamedGroceries(groceryList)[i].name)) = 0 )
         => Count(EntriesOf(reply.missing), ExpectedEntries[i])
              = Count(ExpectedEntries, ExpectedEntries[i])

\* the comparison has reported missing an entry that needs 0 while 5 are
\* there, and an entry that needs 1 while 0 are there
C12_Witness ==
  /\ Compared
  /\ Len(reply.missing) = 2
  /\ \E i, j \in 1..2 :
       /\ reply.missing[i].qtyNeeded = 0
       /\ reply.missing[i].qtyInFridge = Num(5)
       /\ reply.missing[j].qtyNeeded = 1
       /\ reply.missing[j].qtyInFridge = Num(0)

(***************************************************************************)
(* C13: for every grocery entry that has a name, the comparison reports as *)
(* qtyInFridge the sum of the quantities of the items documents whose      *)
(* lower-case, trimmed name is the entry's, one without quantity counting  *)
(* as 0: so 0 when there is no such document.                              *)
(***************************************************************************)
C13_QtyInFridgeIsNameTotal ==
  Compared =>
    LET named == NamedGroceries(groceryList)
    IN  \A i \in 1..Len(named) :
          InSeq([name |-> toTitleCase(named[i].name),
                 qtyNeeded |-> Needed(named[i]),
                 qtyInFridge |-> Num(OwnSum(items, ItemKey(named[i].name)))],
                AllBuckets)

(***************************************************************************)
(* Helpers of the properties about the classification.                     *)
(***************************************************************************)
\* the ingredients of a stored recipe that are objects with a non-empty
\* normalised name
NamedIngredients(recipe) ==
  IF ~recipe.isArray THEN << >>
  ELSE SelectSeq(recipe.ingredients,
                 LAMBDA ing : /\ ing # NullIngredient
                              /\ ItemKey(ing.name) # << >>)

\* the named ingredients of which no items document has the name
NotInInventory(recipe) ==
  SelectSeq(NamedIngredients(recipe),
            LAMBDA ing : ~HasOwn(items, ItemKey(ing.name)))

Listed(list, recipe) == \E i \in 1..Len(list) : list[i].recipeId = recipe._id

\* the payload reported for a recipe
PayloadOf(recipe) ==
  LET all == reply.fullyMakeable \o reply.almostMakeable
  IN  all[CHOOSE i \in 1..Len(all) : all[i].recipeId = recipe._id]

(***************************************************************************)
(* C14: the classification lists a recipe by the number of missing         *)
(* ingredients it finds for it: with none the recipe is in fullyMakeable   *)
(* only, with 1 or 2 in almostMakeable only, with 3 or more in neither;    *)
(* no recipe is listed twice.                                              *)
(***************************************************************************)
C14_BucketByMissingCount ==
  Recommended =>
    /\ \A i \in 1..Len(recipes) :
         LET m == Len(RecipePayload(items, recipes[i]).missingIngredients)
             full == Listed(reply.fullyMakeable, recipes[i])
             almost == Listed(reply.almostMakeable, recipes[i])
         IN  /\ m = 0 => full /\ ~almost
             /\ m \in {1, 2} => almost /\ ~full
             /\ m >= 3 => ~full /\ ~almost
             /\ full => Len(PayloadOf(recipes[i]).missingIngredients) = 0
             /\ almost => Len(PayloadOf(recipes[i]).missingIngredients) \in {1, 2}
    /\ Len(reply.fullyMakeable) + Len(reply.almostMakeable) <= Len(recipes)

\* of two recipes classified against an inventory that has the apples, the
\* one that lacks "7E" is in almostMakeable and the one that lacks three
\* ingredients is in neither list
C14_Witness ==
  /\ Recommended
  /\ Len(recipes) = 2
  /\ Len(NotInInventory(recipes[1])) = 1
  /\ Len(NotInInventory(recipes[2])) = 3
  /\ reply.fullyMakeable = << >>
  /\ Len(reply.almostMakeable) = 1
  /\ reply.almostMakeable[1].recipeId = recipes[1]._id
  /\ Len(reply.almostMakeable[1].availableIngredients) = 1

(***************************************************************************)
(* C15: every ingredient with a non-empty name is listed as available when *)
(* some items document has exactly its lower-case, trimmed name, whatever  *)
(* that document's quantity, and as missing when none has.                 *)
(***************************************************************************)
C15_AvailableIffNameInInventory ==
  Recommended =>
    \A i \in 1..Len(recipes) :
      Listed(reply.fullyMakeable \o reply.almostMakeable, recipes[i]) =>
        LET p == PayloadOf(recipes[i])
            named == NamedIngredients(recipes[i])
        IN  \A k \in 1..Len(named) :
              IF HasOwn(items, ItemKey(named[k].name))
              THEN /\ InSeq(named[k].name, p.availableIngredients)
                   /\ \A j \in 1..Len(p.missingIngredients) :
                        p.missingIngredients[j].name # named[k].name
              ELSE /\ ~InSeq(named[k].name, p.availableIngredients)
                   /\ \E j \in 1..Len(p.missingIngredients) :
                        p.missingIngredients[j].name = named[k].name

(***************************************************************************)
(* C16: every missing ingredient the classification reports has as         *)
(* qtyNeeded the quantity the recipe declares for it, or 1 when the recipe *)
(* declares no finite number.                                              *)
(***************************************************************************)
C16_QtyNeededDeclaredOrOne ==
  Recommended =>
    \A i \in 1..Len(recipes) :
      Listed(reply.fullyMakeable \o reply.almostMakeable, recipes[i]) =>
        LET p == PayloadOf(recipes[i])
            named == NamedIngredients(recipes[i])
        IN  \A j \in 1..Len(p.missingIngredients) :
              \E k \in 1..Len(named) :
                /\ named[k].name = p.missingIngredients[j].name
                /\ p.missingIngredients[j].qtyNeeded
                     = IF named[k].qty.fin THEN named[k].qty ELSE Num(1)

(***************************************************************************)
(* C17: whatever the collections hold, documents with a name that is no    *)
(* string, without quantity or with ingredients that are no array or hold  *)
(* null included, the comparison answers with its three buckets and the    *)
(* classification with its two lists, never with an error.                 *)
(***************************************************************************)
C17_NeverFail ==
  /\ reply.op = "compare" =>
       /\ reply.status = 200
       /\ DOMAIN reply = {"op", "status", "fullySatisfied",
                          "partiallySatisfied", "missing"}
  /\ reply.op = "recommend" =>
       /\ reply.status = 200
       /\ DOMAIN reply = {"op", "status", "fullyMakeable", "almostMakeable"}

\* a classification has answered for a catalog with a recipe whose
\* ingredients are no array and one that holds a null ingredient, against an
\* inventory with a name that is no string
C17_Witness ==
  /\ Recommended
  /\ Len(recipes) = 2
  /\ ~recipes[1].isArray
  /\ recipes[2].isArray /\ InSeq(NullIngredient, recipes[2].ingredients)
  /\ \E i \in 1..Len(items) : ~IsString(items[i].doc.name)
  /\ Len(reply.fullyMakeable) + Len(reply.almostMakeable) = 2

(***************************************************************************)
(* Helpers of the properties about the recognition call.                   *)
(***************************************************************************)
\* the request has ended with the answer the service gave it
Ended(r) == response[r] # NoResponse /\ pc[r] \in {"done", "failed"}

\* the service answered with a candidate
HasCandidate(resp) == resp.kind = "ok" /\ resp.candidates > 0

\* the request was answered an error and the collection is as it was when
\* the request started
FailedUnchanged(r) ==
  /\ pc[r] = "failed"
  /\ status[r] = "error"
  /\ reads[r] = 0 /\ writes[r] = 0
  /\ items = startItems[r]

(***************************************************************************)
(* C18: a scan whose recognition text holds no parseable JSON, or parses   *)
(* to a value without an items array, or carries items that all lack a     *)
(* non-empty name, ends with an error and leaves the items collection as   *)
(* it was.                                                                 *)
(***************************************************************************)
C18_MalformedResponseFails ==
  \A r \in Requests :
    Ended(r) /\ HasCandidate(response[r]) =>
      LET out == callGeminiVision(response[r])
      IN  ( \/ ~out.ok /\ out.error \in {"unparseable", "no-items-array"}
            \/ /\ out.ok
               /\ out.items # << >>
               /\ \A i \in 1..Len(out.items) : RawName(out.items[i]) = << >> )
          => FailedUnchanged(r)

(***************************************************************************)
(* C19: when the recognition call fails (timeout, a status that is not     *)
(* 2xx, no response, a blocked prompt, no candidates, empty content) the   *)
(* request has called the service once, is answered an error, and has      *)
(* neither read nor written the items collection.                          *)
(***************************************************************************)
C19_UpstreamFailureAllOrNothing ==
  \A r \in Requests :
    ( /\ response[r] # NoResponse
      /\ \/ response[r].kind \in {"timeout", "status", "no-response"}
         \/ response[r].kind = "ok" /\ response[r].candidates = 0
         \/ /\ HasCandidate(response[r])
            /\ TrimTokens(response[r].content) = << >> )
    => /\ FailedUnchanged(r)
       /\ calls[r] = 1
       /\ normalizedItems[r] = << >>

\* after a scan that stored a document, a scan whose recognition call timed
\* out has been answered an error and the document is as it was
C19_Witness ==
  \E r \in Requests :
    /\ response[r] = [kind |-> "timeout"]
    /\ pc[r] = "failed" /\ status[r] = "error"
    /\ calls[r] = 1
    /\ Len(items) = 1 /\ items[1].doc.qty = 3
    /\ items = startItems[r]

(***************************************************************************)
(* C20: a candidate whose finish reason is not a normal stop (filtered for *)
(* safety, truncated, or other) makes the request end with an error, and   *)
(* nothing of its content reaches the items collection.                    *)
(***************************************************************************)
C20_FilteredOrTruncatedNeverUsed ==
  \A r \in Requests :
    ( /\ response[r] # NoResponse
      /\ HasCandidate(response[r])
      /\ response[r].finishReason \notin {"", "STOP"} )
    => /\ FailedUnchanged(r)
       /\ normalizedItems[r] = << >>

\* the texts among those tried that hold an object with an items array,
\* bare, in a code fence, or followed by prose
HoldsItemsObject(content) ==
  \/ content \in Payloads
  \/ \E tag \in FenceTags, payload \in Payloads : content = Fenced(tag, payload)
  \/ content = <<"{", "items", "}", "nl", "text">>

(***************************************************************************)
(* C20 as amended: a candidate whose finish reason is SAFETY, or any       *)
(* reason other than STOP and MAX_TOKENS, makes the request end with an    *)
(* error and nothing of its content reaches the items collection.  A       *)
(* candidate truncated by MAX_TOKENS is treated like a complete one: when  *)
(* its text still holds an object with an items array the request goes on  *)
(* with those items, and otherwise it ends with an error.                  *)
(***************************************************************************)
C20_TruncatedIsParsed ==
  \A r \in Requests :
    (response[r] # NoResponse /\ HasCandidate(response[r])) =>
      /\ response[r].finishReason \notin {"", "STOP", "MAX_TOKENS"} =>
           FailedUnchanged(r) /\ normalizedItems[r] = << >>
      /\ response[r].finishReason = "MAX_TOKENS" =>
           IF HoldsItemsObject(response[r].content)
           THEN /\ pc[r] # "failed"
                /\ normalizedItems[r] = normalizeItems(response[r].items, clock)
           ELSE FailedUnchanged(r) /\ normalizedItems[r] = << >>

\* a scan whose candidate was truncated after the object with its items has
\* been answered ok and has stored the item
C20_Witness ==
  \E r \in Requests :
    /\ Ended(r)
    /\ HasCandidate(response[r])
    /\ response[r].finishReason = "MAX_TOKENS"
    /\ response[r].content = <<"{", "items", "}", "nl", "text">>
    /\ status[r] = "ok"
    /\ startItems[r] = << >>
    /\ Len(items) = 1 /\ items[1].doc.qty = 3

(***************************************************************************)
(* Helpers of the properties of normalizeItems: under SpecNorm every item  *)
(* sent has a name, so the i-th normalized item comes from the i-th item   *)
(* of the response when none is dropped.                                   *)
(***************************************************************************)
Answered(r) == response[r] # NoResponse

Sent(r) == response[r].items

NoneDropped(r) ==
  /\ pc[r] # "failed"
  /\ status[r] # "error"
  /\ Len(normalizedItems[r]) = Len(Sent(r))

\* the lower-case form of the categories sent, written out
LowerCased(c) ==
  CASE c = "Candy" -> "candy"
    [] c = "SNACKS" -> "snacks"
    [] c = "DAIRY" -> "dairy"
    [] c = "Produce" -> "produce"
    [] c \in {"produce", "candy", "meat", "chips", "dairy", "", " produce"} -> c

(***************************************************************************)
(* C21: the category of every normalized item, and of every stored         *)
(* document, is one of the supported categories: the lower-case form of    *)
(* the category sent when that is supported, and otherwise "snacks", the   *)
(* default; no item is dropped and no scan fails over its category.        *)
(***************************************************************************)
C21_CategorySupportedOrDefault ==
  /\ "snacks" \in SUPPORTED_CATEGORIES
  /\ \A d \in 1..Len(items) : items[d].doc.category \in SUPPORTED_CATEGORIES
  /\ \A r \in Requests :
       Answered(r) =>
         /\ NoneDropped(r)
         /\ \A i \in 1..Len(Sent(r)) :
              LET c == Sent(r)[i].category
                  out == normalizedItems[r][i].category
              IN  /\ out \in SUPPORTED_CATEGORIES
                  /\ IF c \notin {CatUndefined, CatNotString}
                        /\ LowerCased(c) \in SUPPORTED_CATEGORIES
                     THEN out = LowerCased(c)
                     ELSE out = "snacks"

\* a scan of an item of category "candy" and one of category "DAIRY" has
\* been answered ok, and the stored documents are in "snacks" and "dairy"
C21_Witness ==
  \E r \in Requests :
    /\ Answered(r) /\ status[r] = "ok"
    /\ Len(Sent(r)) = 2
    /\ Sent(r)[1].category = "candy" /\ Sent(r)[2].category = "DAIRY"
    /\ Len(items) = 2
    /\ items[1].doc.category = "snacks" /\ items[2].doc.category = "dairy"

(***************************************************************************)
(* C22: the qty and the expiresInDays of every normalized item are         *)
(* integers not below 0: 0 for a value that is no finite number, and for a *)
(* finite value the nearest integer, or 0 when that is negative; no scan   *)
(* fails over such a value.                                                *)
(***************************************************************************)
C22_SafeIntegerRoundsAndClamps ==
  \A r \in Requests :
    Answered(r) =>
      /\ NoneDropped(r)
      /\ \A i \in 1..Len(Sent(r)) :
           \A f \in {"qty", "expiresInDays"} :
             LET v == Sent(r)[i][f]
                 out == normalizedItems[r][i][f]
             IN  /\ out \in Nat
                 /\ ~v.fin => out = 0
                 /\ v.fin =>
                      \E n \in -3..5 :
                        /\ 10 * n - v.x10 <= 5 /\ v.x10 - 10 * n <= 5
                        /\ out = IF n < 0 THEN 0 ELSE n
                 /\ (v.fin /\ v.x10 < 0) => out = 0

\* a scan of an item with quantity 2.5 and -0.5 days, then of one with
\* quantity -2 and 1.4 days, both called Apple, has stored quantity 3 + 0
\* and 1 day
C22_Witness ==
  \E r \in Requests :
    /\ Answered(r) /\ status[r] = "ok"
    /\ Len(Sent(r)) = 2
    /\ Sent(r)[1].qty = Tenths(25) /\ Sent(r)[1].expiresInDays = Tenths(-5)
    /\ Sent(r)[2].qty = Num(-2) /\ Sent(r)[2].expiresInDays = Tenths(14)
    /\ normalizedItems[r][1].qty = 3 /\ normalizedItems[r][1].expiresInDays = 0
    /\ normalizedItems[r][2].qty = 0 /\ normalizedItems[r][2].expiresInDays = 1
    /\ Len(items) = 1 /\ items[1].doc.qty = 3
    /\ items[1].doc.expiresInDays = 1

\* four numbers, x and y in [0,1], width and height in (0,1]
FourNumbersInRange(b) ==
  /\ b # NoBbox /\ b # NotArrayBbox /\ Len(b) = 4
  /\ \A k \in 1..4 : b[k].type = "number" /\ b[k].x10 <= 10
  /\ b[1].x10 >= 0 /\ b[2].x10 >= 0
  /\ b[3].x10 > 0 /\ b[4].x10 > 0

(***************************************************************************)
(* C23: a normalized item has a bbox only when the bbox sent is four       *)
(* numbers with x and y in [0,1] and width and height in (0,1], and then   *)
(* it is the bbox sent; in every other case the bbox is absent, and the    *)
(* item is kept all the same.                                              *)
(***************************************************************************)
C23_BboxKeptOnlyIfValid ==
  \A r \in Requests :
    Answered(r) =>
      /\ NoneDropped(r)
      /\ \A i \in 1..Len(Sent(r)) :
           IF FourNumbersInRange(Sent(r)[i].bbox)
           THEN normalizedItems[r][i].bbox = Sent(r)[i].bbox
           ELSE normalizedItems[r][i].bbox = NoBbox

(***************************************************************************)
(* C24: a scan whose recognition text is an object with an items array in  *)
(* a code fence, with the tag json on the opening fence or with no tag,    *)
(* goes on with the same item list as a scan whose text is the object      *)
(* alone: the list the object holds.                                       *)
(***************************************************************************)
C24_FenceYieldsSameItems ==
  \A r \in Requests :
    ( /\ Answered(r) /\ HasCandidate(response[r])
      /\ response[r].finishReason \in {"", "STOP"}
      /\ \E payload \in Payloads :
           \/ response[r].content = payload
           \/ \E tag \in FenceTags : response[r].content = Fenced(tag, payload) )
    => /\ pc[r] # "failed"
       /\ normalizedItems[r] = normalizeItems(Sent(r), clock)

\* a scan whose text was the object in a fence without tag, holding Apple
\* and an item without name, has been answered ok and has stored Apple
C24_Witness ==
  \E r \in Requests :
    /\ Ended(r) /\ status[r] = "ok"
    /\ response[r].finishReason = "STOP"
    /\ response[r].content = Fenced(<< >>, <<"{", "nl", "items", "nl", "}">>)
    /\ Len(Sent(r)) = 2
    /\ Len(normalizedItems[r]) = 1
    /\ startItems[r] = << >>
    /\ Len(items) = 1 /\ items[1].doc.qty = 3

(***************************************************************************)
(* C25: every document of the grocery list has a name that is not empty    *)
(* and a qtyNeeded that is an integer of at least 1, whatever add-item,    *)
(* add-missing-to-grocery and delete requests were served.                 *)
(***************************************************************************)
C25_GroceryEntriesWellFormed ==
  \A i \in 1..Len(groceryList) :
    /\ IsString(groceryList[i].name)
    /\ groceryList[i].name # << >>
    /\ groceryList[i].qtyNeeded \in Nat
    /\ groceryList[i].qtyNeeded >= 1

\* the title a generated recipe is stored under
StoredTitle(recipe) ==
  IF IsString(recipe.title) /\ Trim(recipe.title) # << >>
  THEN Trim(recipe.title) ELSE UntitledRecipe

Titles(coll) == {coll[i].title : i \in 1..Len(coll)}

\* the step is a /recipes/generate request that was answered 200
Generated ==
  /\ reply'.op = "generate" /\ reply'.status = 200
  /\ clock' = clock + 1
  /\ groceryList' = groceryList /\ items' = items /\ pc' = pc

\* the last recipe of the batch stored under the title
LastWithTitle(generated, title) ==
  LET k == CHOOSE k \in 1..Len(generated) :
             /\ StoredTitle(generated[k]) = title
             /\ \A j \in k + 1..Len(generated) : StoredTitle(generated[j]) # title
  IN  generated[k]

(***************************************************************************)
(* C26: no two documents of the recipes collection have the same title.    *)
(* A /recipes/generate request leaves every stored recipe at its place     *)
(* with its _id, title and createdAt; a stored recipe whose title is       *)
(* generated again gets the description and the ingredients of the         *)
(* generated recipe, every other is untouched; and one document is         *)
(* inserted for each generated title that was not stored, created now.     *)
(***************************************************************************)
C26_RecipesKeyedByTitle ==
  /\ [](Cardinality(Titles(recipes)) = Len(recipes))
  /\ [][Generated =>
          LET generated == reply'.generated
              genTitles == {StoredTitle(generated[k]) : k \in 1..Len(generated)}
          IN  /\ Len(recipes') =
                   Len(recipes) + Cardinality(genTitles \ Titles(recipes))
              /\ Titles(recipes') = Titles(recipes) \cup genTitles
              /\ \A i \in 1..Len(recipes) :
                   /\ recipes'[i]._id = recipes[i]._id
                   /\ recipes'[i].title = recipes[i].title
                   /\ recipes'[i].createdAt = recipes[i].createdAt
                   /\ recipes[i].title \notin genTitles =>
                        recipes'[i] = recipes[i]
              /\ \A i \in 1..Len(recipes') :
                   /\ i > Len(recipes) => recipes'[i].createdAt = clock'
                   /\ recipes'[i].title \in genTitles =>
                        LET g == LastWithTitle(generated, recipes'[i].title)
                        IN  /\ recipes'[i].description =
                                 (IF g.description = NoText THEN ""
                                  ELSE g.description)
                            /\ Len(recipes'[i].ingredients) =
                                 (IF g.isArray THEN Len(g.ingredients) ELSE 0)
       ]_vars

\* the recipe stored under "pie" by the first request has been generated
\* again by the second, under " pie" and without description: it is the one
\* document, created at the first request, now without description
C26_Witness ==
  /\ reply.op = "generate" /\ reply.status = 200
  /\ clock = 2
  /\ Len(reply.generated) = 1 /\ reply.generated[1].title = NameSpPie
  /\ Len(recipes) = 1
  /\ recipes[1].title = NamePie
  /\ recipes[1].createdAt = 1
  /\ recipes[1].description = ""

\* only a-z, 0-9 and spaces, no space at either end and no two in a row
WellFormedKey(k) ==
  /\ \A i \in 1..Len(k) : k[i] \in LowerLetters \cup DigitChars \cup {" "}
  /\ k[1] # " " /\ k[Len(k)] # " "
  /\ \A i \in 1..Len(k) - 1 : ~(k[i] = " " /\ k[i + 1] = " ")

\* the name has a letter or a digit
HasAlnum(name) ==
  \E i \in 1..Len(name) :
    toLowerCase(name[i]) \in LowerLetters \cup DigitChars

(***************************************************************************)
(* C27: a canonical name that is not empty is made of a-z, 0-9 and single  *)
(* spaces, with no space at either end; and the canonical name is empty    *)
(* exactly for the names without a letter or a digit.                      *)
(***************************************************************************)
C27_KeyWellFormed ==
  cDone =>
    /\ cOut # << >> => WellFormedKey(cOut)
    /\ cOut = << >> <=> ~HasAlnum(cIn)

\* missing < partiallySatisfied < fullySatisfied
TierRank(bucket) ==
  CASE bucket = "missing" -> 0
    [] bucket = "partiallySatisfied" -> 1
    [] bucket = "fullySatisfied" -> 2

\* the tier the comparison gives the entry against the collection
Tier(coll, grocery) ==
  TierRank(Bucket(InFridge(coll, ItemKey(grocery.name)), Needed(grocery)))

(***************************************************************************)
(* C28: when a scan has been answered ok, every entry of the grocery list  *)
(* is, against the items collection as the scan left it, at the tier it    *)
(* has against the collection as the scan found it, or at a higher one.    *)
(***************************************************************************)
C28_ScanNeverLowersTier ==
  \A r \in Requests :
    (pc[r] = "done" /\ status[r] = "ok") =>
      \A i \in 1..Len(groceryList) :
        Tier(items, groceryList[i]) >= Tier(startItems[r], groceryList[i])

\* the step is an add-missing-to-grocery request, answered 200, that sent a
\* missingIngredients list of the recommendation answered just before
AddedRecommended ==
  /\ reply.op = "recommend" /\ reply.status = 200
  /\ reply'.op = "add-missing" /\ reply'.status = 200
  /\ reply'.missingIngredients \in RecommendedMissing

(***************************************************************************)
(* C29: an add-missing-to-grocery request that sends a missingIngredients  *)
(* list as the recommendation reported it inserts one grocery entry for    *)
(* each ingredient of the list: inserted is the length of the list, the    *)
(* grocery list grows by as many entries, and each ingredient's name is on *)
(* the grocery list afterwards.                                            *)
(***************************************************************************)
C29_AddMissingInsertsAll ==
  [][AddedRecommended =>
       LET list == reply'.missingIngredients
       IN  /\ reply'.inserted = Len(list)
           /\ Len(groceryList') = Len(groceryList) + Len(list)
           /\ \A i \in 1..Len(list) :
                \E g \in 1..Len(groceryList') :
                  groceryList'[g].name = toTitleCase(Trim(list[i].name))
    ]_vars

(***************************************************************************)
(* C30: when a scan has been answered an error, the items collection is as *)
(* it was when the scan started, also when the error is a rejected call of *)
(* the store in the middle of the batch.                                   *)
(***************************************************************************)
C30_FailedScanChangedNothing ==
  \A r \in Requests :
    (pc[r] = "failed" /\ status[r] = "error") => items = startItems[r]

====
